---- MODULE Spec2Model ----
(***************************************************************************)
(* Model of the self-correcting generation loop of excel-sheet-analysis:   *)
(* PipelineOrchestrator.run (core/orchestrator.py) with the collaborators  *)
(* it drives: CodeRunner.execute, DataValidator.validate,                  *)
(* CodeOptimizer.optimize, CodeGenerator.generate, DataExporter.export and *)
(* PatternLibrary (save_pattern / find_similar_pattern).                   *)
(*                                                                         *)
(* Python dictionaries are functions whose DOMAIN is the set of keys, so   *)
(* that d['k'] on a missing key (KeyError) is visible in the model.        *)
(* Floating point accuracies are exact rationals <<num, den>>.             *)
(***************************************************************************)
EXTENDS Integers, Sequences, FiniteSets, TLC

(***************************************************************************)
(* Bounds of the model.                                                    *)
(***************************************************************************)
MaxIter == 2            \* largest configured max_iterations explored
MaxClock == 1           \* wall clock (seconds) stops advancing here

(***************************************************************************)
(* Python dictionaries.                                                    *)
(***************************************************************************)
HasKey(d, k) == k \in DOMAIN d

\* d[k] = v
Put(d, k, v) == (k :> v) @@ d

Min(a, b) == IF a <= b THEN a ELSE b

(***************************************************************************)
(* Cell values.  A cell read with df.loc[idx, col] is a numpy scalar of    *)
(* the column's dtype, or a Python object in an object column.  Numeric    *)
(* values are integers counting units of 1e-6.                             *)
(*   tag "i64"  numpy.int64      tag "f64"  numpy.float64                  *)
(*   tag "nan"  missing (NaN)    tag "str"  str (v is the string's index)  *)
(*   tag "int"  Python int       tag "float" Python float                  *)
(***************************************************************************)
Unit == 10^6

Cell(t, v) == [t |-> t, v |-> v]

NaN == Cell("nan", 0)

\* pd.isna(val)
isna(val) == val.t = "nan"

\* isinstance(val, (int, float)): numpy.float64 subclasses float,
\* numpy.int64 does not subclass int; NaN is a float.
isinstance_int_float(val) == val.t \in {"int", "float", "f64", "nan"}

\* type(val)
type(val) == IF val.t \in {"nan"} THEN "f64" ELSE val.t

\* tolerance: float = 1e-6, in units of 1e-6
tolerance == 1

Abs(n) == IF n < 0 THEN -n ELSE n

\* DataValidator._values_match
_values_match(val1, val2) ==
  IF type(val1) # type(val2)
        /\ ~(isinstance_int_float(val1) /\ isinstance_int_float(val2))
  THEN FALSE
  ELSE IF isinstance_int_float(val1) /\ isinstance_int_float(val2)
       THEN \* a comparison with NaN is false
            /\ ~isna(val1)
            /\ ~isna(val2)
            /\ Abs(val1.v - val2.v) <= tolerance
       ELSE val1.v = val2.v

\* DataValidator._calculate_difference: val1 - val2, or None.
\* [none |-> TRUE] is None.
_calculate_difference(val1, val2) ==
  IF isinstance_int_float(val1) /\ isinstance_int_float(val2)
  THEN [none |-> FALSE, nan |-> isna(val1) \/ isna(val2),
        d |-> IF isna(val1) \/ isna(val2) THEN 0 ELSE val1.v - val2.v]
  ELSE [none |-> TRUE, nan |-> FALSE, d |-> 0]

(***************************************************************************)
(* Tables (pandas DataFrames with a RangeIndex): a sequence of columns,    *)
(* each with a name and a dtype, and a sequence of rows of cells.          *)
(***************************************************************************)
DataFrame(cols, rows) == [cols |-> cols, rows |-> rows]

Col(name, dtype) == [name |-> name, dtype |-> dtype]

columns_set(df) == {df.cols[i].name : i \in 1..Len(df.cols)}

\* list(df.columns)
columns(df) == [i \in 1..Len(df.cols) |-> df.cols[i].name]

\* len(df)
len(df) == Len(df.rows)

is_numeric_dtype_lenient(dtype) == dtype \in {"int64", "float64", "object"}

\* pd.api.types.is_numeric_dtype
is_numeric_dtype(dtype) == dtype \in {"int64", "float64"}

ColIndex(df, name) == CHOOSE i \in 1..Len(df.cols) : df.cols[i].name = name

HasCol(df, name) == \E i \in 1..Len(df.cols) : df.cols[i].name = name

\* DataValidator._validate_schema: the set of errors found
\* (a "columns" error, and one "type" error per offending column of df2).
_validate_schema_errors(df1, df2) ==
  (IF columns(df1) # columns(df2) THEN {"columns"} ELSE {})
  \cup { df2.cols[j].name : j \in
           { i \in 1..Len(df2.cols) :
               /\ HasCol(df1, df2.cols[i].name)
               /\ LET expected_type == df2.cols[i].dtype
                      actual_type == df1.cols[ColIndex(df1, df2.cols[i].name)].dtype
                  IN /\ ~(is_numeric_dtype(expected_type) /\ is_numeric_dtype(actual_type))
                     /\ expected_type # actual_type } }

\* DataValidator._validate_schema: len(errors) == 0
_validate_schema(df1, df2) == _validate_schema_errors(df1, df2) = {}

\* The (row, column) pairs of df1 in row-major, column-order traversal.
CellOrder(df) ==
  LET C == Len(df.cols)
  IN [k \in 1..(len(df) * C) |-> <<((k - 1) \div C) + 1, ((k - 1) % C) + 1>>]

\* df2.loc[idx, col] raises KeyError when df2 has no row idx.
_compare_values_raises(df1, df2) ==
  \E k \in DOMAIN CellOrder(df1) : CellOrder(df1)[k][1] > len(df2)

CellMatches(df1, df2, rc) ==
  LET val1 == df1.rows[rc[1]][rc[2]]
      val2 == df2.rows[rc[1]][ColIndex(df2, df1.cols[rc[2]].name)]
  IN \/ (isna(val1) /\ isna(val2))
     \/ _values_match(val1, val2)

MismatchAt(df1, df2, rc) ==
  LET val1 == df1.rows[rc[1]][rc[2]]
      val2 == df2.rows[rc[1]][ColIndex(df2, df1.cols[rc[2]].name)]
  IN [row |-> rc[1] - 1,
      column |-> df1.cols[rc[2]].name,
      expected |-> val2,
      actual |-> val1,
      difference |-> _calculate_difference(val1, val2)]

_compare_values_vacuous(df1, df2) ==
  LET total_cells == len(df1) * Len(df1.cols)
      bad == SelectSeq(CellOrder(df1), LAMBDA rc : ~CellMatches(df1, df2, rc))
      mismatches == [i \in 1..Len(bad) |-> MismatchAt(df1, df2, bad[i])]
      matching_cells == total_cells - Len(bad)
      accuracy == IF total_cells > 0 THEN <<matching_cells, total_cells>>
                  ELSE <<1, 1>>
  IN <<accuracy, mismatches>>

\* DataValidator._compare_values: <<accuracy, mismatches>>
_compare_values(df1, df2) ==
  LET total_cells == len(df1) * Len(df1.cols)
      bad == SelectSeq(CellOrder(df1), LAMBDA rc : ~CellMatches(df1, df2, rc))
      mismatches == [i \in 1..Len(bad) |-> MismatchAt(df1, df2, bad[i])]
      matching_cells == total_cells - Len(bad)
      accuracy == IF total_cells > 0 THEN <<matching_cells, total_cells>>
                  ELSE <<0, 1>>
  IN <<accuracy, mismatches>>

GEq_strict(a, b) == a[1] * b[2] > b[1] * a[2]

\* accuracy >= threshold on rationals
GEq(a, b) == a[1] * b[2] >= b[1] * a[2]

SampleSize_half == 20 \div 2

\* mismatches[:20]
SampleSize == 20

\* DataValidator.validate raises (KeyError out of _compare_values)
validate_raises(generated_df, truth_df) ==
  /\ _validate_schema(generated_df, truth_df)
  /\ _compare_values_raises(generated_df, truth_df)

\* DataValidator.validate: the report returned
validate(generated_df, truth_df, accuracy_threshold) ==
  IF ~_validate_schema(generated_df, truth_df)
  THEN [passed |-> FALSE,
        schema_match |-> FALSE,
        schema_errors |-> _validate_schema_errors(generated_df, truth_df),
        value_accuracy |-> <<0, 1>>,
        message |-> "Schema validation failed"]
  ELSE LET row_count_match == len(generated_df) = len(truth_df)
           cv == _compare_values(generated_df, truth_df)
           accuracy == cv[1]
           mismatches == cv[2]
           passed == row_count_match /\ GEq(accuracy, accuracy_threshold)
       IN [passed |-> passed,
           schema_match |-> TRUE,
           row_count_match |-> row_count_match,
           rows_expected |-> len(truth_df),
           rows_actual |-> len(generated_df),
           value_accuracy |-> accuracy,
           accuracy_threshold |-> accuracy_threshold,
           mismatches_count |-> Len(mismatches),
           mismatches_sample |-> SubSeq(mismatches, 1, Min(SampleSize, Len(mismatches))),
           summary |-> <<IF passed THEN "PASSED" ELSE "FAILED", accuracy, Len(mismatches)>>]

(***************************************************************************)
(* The job's inputs.  The reference table (ground truth) has an integer    *)
(* column and a string column; the candidate programs the oracle may       *)
(* author either fail in CodeRunner.execute or return one of ResultTables. *)
(***************************************************************************)
I64(n) == Cell("i64", n * Unit)

F64(n) == Cell("f64", n * Unit)

Str(n) == Cell("str", n)

GroundTruth ==
  DataFrame(<<Col("x", "int64"), Col("y", "object")>>,
            << <<I64(1), Str(1)>>, <<I64(2), Str(2)>> >>)

TReordered ==
  DataFrame(<<Col("y", "object"), Col("x", "int64")>>,
            << <<Str(1), I64(1)>>, <<Str(2), I64(2)>> >>)

TFewer ==
  DataFrame(GroundTruth.cols, << <<I64(1), Str(1)>> >>)

TMore ==
  DataFrame(GroundTruth.cols,
            << <<I64(1), Str(1)>>, <<I64(2), Str(2)>>, <<I64(3), Str(3)>> >>)

TBadInt ==
  DataFrame(GroundTruth.cols, << <<I64(1), Str(1)>>, <<I64(3), Str(2)>> >>)

TBadStr ==
  DataFrame(GroundTruth.cols, << <<I64(1), Str(9)>>, <<I64(2), Str(2)>> >>)

TFloat ==
  DataFrame(<<Col("x", "float64"), Col("y", "object")>>,
            << <<F64(1), Str(1)>>, <<F64(2), Str(2)>> >>)

\* the tables candidate programs return in the correction loop: one per
\* way through DataValidator.validate (pass, schema failure, row-count
\* failure, KeyError, value mismatch)
ResultTables == {GroundTruth, TReordered, TFewer, TMore, TBadInt}

NoDF == DataFrame(<< >>, << >>)

\* How a candidate program behaves when CodeRunner.execute runs it:
\*   "ok"      main returns the DataFrame out
\*   "raise"   exec(code) or main raises an Exception (SyntaxError included)
\*   "nomain"  the namespace has no main
\*   "nondf"   main returns a value that is not a DataFrame
\*   "exit"    the code raises SystemExit (not an Exception)
\*   "hang"    main never returns
FailKinds == {"raise", "nomain", "nondf"}

Programs ==
  { [kind |-> "ok", out |-> T] : T \in ResultTables }
  \cup { [kind |-> k, out |-> NoDF] : k \in FailKinds \cup {"exit", "hang"} }

\* config['validation']['accuracy_threshold']
Thresholds == { <<99, 100>> }

\* layout_type / fact_type the analysis oracle may report
Layouts == {"wide", "long"}

Facts == {"sales"}

(***************************************************************************)
(* Pattern library files.  A file is readable JSON or not; json is the     *)
(* pattern record.                                                         *)
(***************************************************************************)
Pattern(id, created, layout, fact, code, acc, usage) ==
  [pattern_id |-> id,
   created |-> created,
   source_characteristics |-> [layout_type |-> layout, fact_type |-> fact,
                               complexity |-> "c"],
   transformation_code |-> code,
   validation_accuracy |-> acc,
   metadata |-> "m",
   usage_count |-> usage]

OldCode == [kind |-> "ok", out |-> GroundTruth]

JsonFile(record) == [readable |-> TRUE, json |-> record]

CorruptFile == [readable |-> FALSE, json |-> Pattern(0, 0, "", "", OldCode, <<0, 1>>, 0)]

\* Libraries left behind by earlier jobs (pattern ids are past timestamps).
InitLibraries ==
  { << >>,
    (-1 :> JsonFile(Pattern(-1, -1, "wide", "sales", OldCode, <<1, 1>>, 0))),
    (-1 :> CorruptFile),
    (-2 :> JsonFile(Pattern(-2, -2, "wide", "sales", OldCode, <<1, 1>>, 3)))
       @@ (-1 :> CorruptFile) }

(***************************************************************************)
(* State.                                                                  *)
(***************************************************************************)
VARIABLES
  max_iterations,      \* self.max_iterations
  enable_learning,     \* self.enable_learning
  save_artifacts,      \* self.save_artifacts
  accuracy_threshold,  \* self.data_validator.accuracy_threshold
  check_library,       \* argument of run
  ground_truth,        \* the table at ground_truth_path (argument of run)
  pc,                  \* position of run
  clock,               \* wall clock in seconds (get_timestamp)
  files,               \* generator/generated: path -> program text
  library,             \* learning/patterns: pattern id -> file
  results,             \* the dictionary run returns
  analysis_report,     \* local of run
  iteration,           \* local of run
  validation_passed,   \* local of run
  current_code_path,   \* local of run
  exec_out,            \* locals success, result_df, error_msg of run
  validation_report,   \* local of run
  pattern_files,       \* local of find_similar_pattern: files still to scan
  pattern,             \* local of find_similar_pattern: the record loaded
  calls,               \* number of calls of each collaborator (observer)
  obs                  \* facts about the calls made so far (observer)

vars == <<max_iterations, enable_learning, save_artifacts, accuracy_threshold,
          check_library, ground_truth, pc, clock, files, library, results, analysis_report,
          iteration, validation_passed, current_code_path, exec_out,
          validation_report, pattern_files, pattern, calls, obs>>

\* the locals of a find_similar_pattern call in progress
lookup_locals == <<pattern_files, pattern>>

config == <<max_iterations, enable_learning, save_artifacts,
            accuracy_threshold, check_library, ground_truth>>

NoPath == [kind |-> "none", ts |-> 0]

NoReport == [none |-> TRUE]

NoProgram == [kind |-> "none", out |-> NoDF]

Ops == {"analyze", "find_similar_pattern", "generate", "execute", "validate",
        "optimize", "export", "save_pattern"}

\* utils.helpers.get_timestamp: one-second resolution
get_timestamp == clock

Init ==
  /\ max_iterations \in 0..MaxIter
  /\ enable_learning \in BOOLEAN
  /\ save_artifacts \in BOOLEAN
  /\ accuracy_threshold \in Thresholds
  /\ check_library \in BOOLEAN
  /\ ground_truth = GroundTruth
  /\ pc = "start"
  /\ clock = 0
  /\ files = << >>
  /\ library \in InitLibraries
  /\ results = << >>
  /\ analysis_report = [none |-> TRUE]
  /\ iteration = 0
  /\ validation_passed = FALSE
  /\ current_code_path = NoPath
  /\ exec_out = [success |-> FALSE, result_df |-> NoDF, error_msg |-> "unset"]
  /\ validation_report = NoReport
  /\ pattern_files = << >>
  /\ pattern = NoReport
  /\ calls = [o \in Ops |-> 0]
  /\ obs = [raised |-> "none",          \* where the exception run caught came from
            executed |-> NoProgram,     \* program run by the last execute
            executed_path |-> NoPath,   \* its path
            exec_iter |-> 0,            \* iteration of the last execute
            last_report |-> NoReport,   \* last report validate returned
            report_iter |-> 0,          \* iteration of that validate call
            passed_program |-> NoProgram, \* program whose result passed
            feedback |-> NoReport,      \* report given to the last optimize
            examples |-> << >>,         \* mismatch examples of the last optimize
            optimized_from |-> NoPath,  \* code_path given to the last optimize
            lookup |-> "none",          \* outcome of find_similar_pattern
            stored_code |-> NoProgram]  \* code text of the last save_pattern

Called(op) == [calls EXCEPT ![op] = @ + 1]

Except_silent(res, o, e, site) ==
  /\ results' = res
  /\ obs' = [o EXCEPT !.raised = site]
  /\ pc' = "done"

\* except Exception as e: results['error'] = str(e); return results
Except(res, o, e, site) ==
  /\ results' = Put(res, "error", e)
  /\ obs' = [o EXCEPT !.raised = site]
  /\ pc' = "done"

(***************************************************************************)
(* PatternLibrary                                                          *)
(***************************************************************************)
\* os.listdir gives the files in an arbitrary order
Listings(lib) ==
  { order \in [1..Cardinality(DOMAIN lib) -> DOMAIN lib] :
      \A i, j \in DOMAIN order : i # j => order[i] # order[j] }

SignatureMatches(stored, report) ==
  /\ stored.source_characteristics.layout_type = report.structure_analysis.layout_type
  /\ stored.source_characteristics.fact_type = report.semantic_analysis.fact_type

\* PatternLibrary.find_similar_pattern: the scan stops at the first file that
\* cannot be loaded (load_json raises) or whose signature matches.
find_similar_pattern(lib, order, report) ==
  LET stops == { i \in DOMAIN order :
                   \/ ~lib[order[i]].readable
                   \/ SignatureMatches(lib[order[i]].json, report) }
  IN IF stops = {}
     THEN [kind |-> "miss", id |-> 0]
     ELSE LET k == CHOOSE i \in stops : \A j \in stops : i <= j
          IN IF ~lib[order[k]].readable
             THEN [kind |-> "raise", id |-> order[k]]
             ELSE [kind |-> "hit", id |-> order[k]]

IncrementUsage_lost(lib, id) == lib

\* pattern['usage_count'] += 1; save_json(pattern, pattern_path)
IncrementUsage(lib, id) ==
  [lib EXCEPT ![id] = JsonFile([@.json EXCEPT !.usage_count = @ + 1])]

\* PatternLibrary.save_pattern: the library after the store
save_pattern(lib, report, code, vreport, ts) ==
  Put(lib, ts,
      JsonFile(Pattern(ts, ts,
                       report.structure_analysis.layout_type,
                       report.semantic_analysis.fact_type,
                       code, vreport.value_accuracy, 0)))

(***************************************************************************)
(* CodeRunner.execute                                                      *)
(***************************************************************************)
\* the candidate raises something that is not an Exception, or never returns
Escapes(prog) == prog.kind \in {"exit", "hang"}

\* error_msg = f"Execution failed: {str(e)}"
ExecutionFailed ==
  [raise |-> "Execution failed: exception in the generated code",
   nomain |-> "Execution failed: Generated code does not contain a main() function",
   nondf |-> "Execution failed: main() function did not return a DataFrame"]

execute_unchecked(prog) ==
  IF prog.kind \in {"ok", "nondf"}
  THEN [success |-> TRUE, result_df |-> prog.out, error_msg |-> ""]
  ELSE [success |-> FALSE, result_df |-> NoDF,
        error_msg |-> ExecutionFailed[prog.kind]]

execute(prog) ==
  IF prog.kind = "ok"
  THEN [success |-> TRUE, result_df |-> prog.out, error_msg |-> ""]
  ELSE [success |-> FALSE, result_df |-> NoDF,
        error_msg |-> ExecutionFailed[prog.kind]]

(***************************************************************************)
(* save_json(validation_report, validation_path): json.dump raises         *)
(* TypeError on a numpy.int64 among the recorded mismatch values.          *)
(***************************************************************************)
save_json_raises(report) ==
  /\ HasKey(report, "mismatches_sample")
  /\ \E i \in DOMAIN report.mismatches_sample :
        \/ report.mismatches_sample[i].expected.t = "i64"
        \/ report.mismatches_sample[i].actual.t = "i64"

ExampleSize_all == 10 + 10

(***************************************************************************)
(* CodeOptimizer.optimize: mismatches[:10] of                              *)
(* validation_report.get('mismatches_sample', [])                          *)
(***************************************************************************)
ExampleSize == 10

mismatch_examples(report) ==
  LET mismatches == IF HasKey(report, "mismatches_sample")
                    THEN report.mismatches_sample ELSE << >>
  IN SubSeq(mismatches, 1, Min(ExampleSize, Len(mismatches)))

(***************************************************************************)
(* PipelineOrchestrator.run                                                *)
(***************************************************************************)
WhileCond_inclusive(it, passed) == it <= max_iterations /\ ~passed

\* while iteration < self.max_iterations and not validation_passed
WhileCond(it, passed) == it < max_iterations /\ ~passed

RetryAfterError_inclusive(it) == it <= max_iterations

\* if iteration < self.max_iterations (after a failed execution)
RetryAfterError(it) == it < max_iterations

RetryAfterMismatch_inclusive(it) == it <= max_iterations

\* if iteration < self.max_iterations (after a failed validation)
RetryAfterMismatch(it) == it < max_iterations

ValidationPassed_any(report) == TRUE

\* if validation_report['passed']
ValidationPassed(report) == report.passed

\* results at entry of run
InitialResults ==
  [timestamp |-> get_timestamp,
   messy_file |-> "messy.xlsx",
   ground_truth_file |-> "truth.xlsx",
   success |-> FALSE]

\* the synthetic report built after a failed execution
ErrorReport(error_msg) ==
  [passed |-> FALSE, error |-> error_msg, mismatches_sample |-> << >>]

\* Phase 1: the three analysis calls of the oracle and AnalysisReport.generate
Analyze ==
  /\ pc = "start"
  /\ calls' = Called("analyze")
  /\ \E fail \in BOOLEAN, layout \in Layouts, fact \in Facts :
       IF fail
       THEN /\ Except(InitialResults, obs, "oracle", "oracle")
            /\ UNCHANGED analysis_report
       ELSE /\ analysis_report' =
                 [timestamp |-> get_timestamp,
                  structure_analysis |-> [layout_type |-> layout],
                  semantic_analysis |-> [fact_type |-> fact],
                  transformation_plan |-> [complexity_estimate |-> "c"]]
            /\ results' = IF save_artifacts
                          THEN Put(InitialResults, "analysis_report", get_timestamp)
                          ELSE InitialResults
            /\ pc' = "cache"
            /\ UNCHANGED obs
  /\ UNCHANGED <<config, lookup_locals, clock, files, library, iteration, validation_passed,
                 current_code_path, exec_out, validation_report>>

LookupRequested_optin == check_library

\* if check_library and self.enable_learning
LookupRequested == check_library /\ enable_learning

\* if check_library and self.enable_learning: find_similar_pattern
CacheCheck ==
  /\ pc = "cache"
  /\ IF LookupRequested
     THEN /\ calls' = Called("find_similar_pattern")
          /\ \E order \in Listings(library) :
               LET found == find_similar_pattern(library, order, analysis_report)
               IN CASE found.kind = "raise" ->
                         /\ Except(results, [obs EXCEPT !.lookup = "raise"],
                                   "JSONDecodeError", "library")
                         /\ UNCHANGED library
                    [] found.kind = "hit" ->
                         /\ library' = IncrementUsage(library, found.id)
                         /\ obs' = [obs EXCEPT !.lookup = "hit"]
                         /\ pc' = "generate"
                         /\ UNCHANGED results
                    [] found.kind = "miss" ->
                         /\ obs' = [obs EXCEPT !.lookup = "miss"]
                         /\ pc' = "generate"
                         /\ UNCHANGED <<library, results>>
     ELSE /\ pc' = "generate"
          /\ UNCHANGED <<calls, library, results, obs>>
  /\ UNCHANGED <<config, lookup_locals, clock, files, analysis_report, iteration,
                 validation_passed, current_code_path, exec_out,
                 validation_report>>

Generate_cached ==
  /\ pc = "generate"
  /\ IF obs.lookup = "hit"
     THEN LET code_path == [kind |-> "pattern", ts |-> 0]
          IN /\ files' = Put(files, code_path, OldCode)
             /\ results' = Put(results, "generated_code", code_path)
             /\ current_code_path' = code_path
             /\ pc' = "loop"
             /\ UNCHANGED <<calls, obs>>
     ELSE /\ calls' = Called("generate")
          /\ \E fail \in BOOLEAN, prog \in Programs :
               IF fail
               THEN /\ Except(results, obs, "oracle", "oracle")
                    /\ UNCHANGED <<files, current_code_path>>
               ELSE LET code_path == [kind |-> "gen", ts |-> get_timestamp]
                    IN /\ files' = Put(files, code_path, prog)
                       /\ results' = Put(results, "generated_code", code_path)
                       /\ current_code_path' = code_path
                       /\ pc' = "loop"
                       /\ UNCHANGED obs
  /\ iteration' = 0
  /\ validation_passed' = FALSE
  /\ UNCHANGED <<config, lookup_locals, clock, library, analysis_report, exec_out,
                 validation_report>>

\* Phase 2: CodeGenerator.generate writes transform_{timestamp}.py
Generate ==
  /\ pc = "generate"
  /\ calls' = Called("generate")
  /\ \E fail \in BOOLEAN, prog \in Programs :
       IF fail
       THEN /\ Except(results, obs, "oracle", "oracle")
            /\ UNCHANGED <<files, current_code_path>>
       ELSE LET code_path == [kind |-> "gen", ts |-> get_timestamp]
            IN /\ files' = Put(files, code_path, prog)
               /\ results' = Put(results, "generated_code", code_path)
               /\ current_code_path' = code_path
               /\ pc' = "loop"
               /\ UNCHANGED obs
  /\ iteration' = 0
  /\ validation_passed' = FALSE
  /\ UNCHANGED <<config, lookup_locals, clock, library, analysis_report, exec_out,
                 validation_report>>

\* Phase 3, top of the loop body: iteration += 1; self.code_runner.execute
Execute ==
  /\ pc = "loop"
  /\ WhileCond(iteration, validation_passed)
  /\ iteration' = iteration + 1
  /\ calls' = Called("execute")
  /\ LET prog == files[current_code_path]
         out == execute(prog)
         seen == [obs EXCEPT !.executed = prog,
                             !.executed_path = current_code_path,
                             !.exec_iter = iteration + 1]
     IN IF Escapes(prog)
        THEN /\ pc' = IF prog.kind = "exit" THEN "crashed" ELSE "hung"
             /\ obs' = seen
             /\ UNCHANGED <<exec_out, validation_report, results>>
        ELSE /\ exec_out' = out
             /\ obs' = seen
             /\ IF ~out.success
                THEN IF RetryAfterError(iteration + 1)
                     THEN /\ validation_report' = ErrorReport(out.error_msg)
                          /\ pc' = "regenerate"
                          /\ UNCHANGED results
                     ELSE /\ results' = Put(results, "error", out.error_msg)
                          /\ pc' = "done"
                          /\ UNCHANGED validation_report
                ELSE /\ pc' = "validate"
                     /\ UNCHANGED <<validation_report, results>>
  /\ UNCHANGED <<config, lookup_locals, clock, files, library, analysis_report,
                 validation_passed, current_code_path>>

\* the while condition is false: run logs the outcome and returns results
LoopExit ==
  /\ pc = "loop"
  /\ ~WhileCond(iteration, validation_passed)
  /\ pc' = "done"
  /\ UNCHANGED <<config, lookup_locals, clock, files, library, results, analysis_report,
                 iteration, validation_passed, current_code_path, exec_out,
                 validation_report, calls, obs>>

PassedResults_early(res, report, path, it) ==
  Put(Put(Put(Put(Put(res, "validation_report", report),
                  "final_code", path),
              "cleaned_data", it),
          "iterations", it),
      "success", TRUE)

PassedResults_initial(res, report, path, it) ==
  Put(Put(Put(Put(res, "validation_report", report),
              "final_code", res["generated_code"]),
          "cleaned_data", it),
      "iterations", it)

\* results after a passing validation (lines 183-186)
PassedResults(res, report, path, it) ==
  Put(Put(Put(Put(res, "validation_report", report),
              "final_code", path),
          "cleaned_data", it),
      "iterations", it)

\* results after the last failed validation (lines 229-230)
FailedResults(res, report, path) ==
  Put(Put(res, "validation_report", report), "final_code", path)

\* self.data_validator.validate and the branch on validation_report['passed']
Validate ==
  /\ pc = "validate"
  /\ calls' = Called("validate")
  /\ IF validate_raises(exec_out.result_df, ground_truth)
     THEN /\ Except(results, obs, "KeyError", "validate")
          /\ UNCHANGED <<validation_report, validation_passed>>
     ELSE LET report == validate(exec_out.result_df, ground_truth, accuracy_threshold)
              seen == [obs EXCEPT !.last_report = report,
                                  !.report_iter = iteration,
                                  !.passed_program =
                                     IF report.passed THEN obs.executed ELSE @]
          IN /\ validation_report' = report
             /\ IF save_artifacts /\ save_json_raises(report)
                THEN /\ Except(results, seen, "TypeError", "save_json")
                     /\ UNCHANGED validation_passed
                ELSE IF ValidationPassed(report)
                THEN /\ validation_passed' = TRUE
                     /\ results' = PassedResults(results, report,
                                                 current_code_path, iteration)
                     /\ obs' = seen
                     /\ pc' = "export"
                ELSE IF ~HasKey(report, "summary")
                THEN \* logger.warning(f"... {validation_report['summary']}")
                     /\ Except(results, seen, "'summary'", "summary")
                     /\ UNCHANGED validation_passed
                ELSE IF RetryAfterMismatch(iteration)
                THEN /\ pc' = "regenerate"
                     /\ obs' = seen
                     /\ UNCHANGED <<results, validation_passed>>
                ELSE /\ results' = FailedResults(results, report, current_code_path)
                     /\ obs' = seen
                     /\ pc' = "loop"
                     /\ UNCHANGED validation_passed
  /\ UNCHANGED <<config, lookup_locals, clock, files, library, analysis_report, iteration,
                 current_code_path, exec_out>>

\* Phase 4: CodeOptimizer.optimize writes transform_{timestamp}_optimized.py
Regenerate ==
  /\ pc = "regenerate"
  /\ calls' = Called("optimize")
  /\ LET seen == [obs EXCEPT !.feedback = validation_report,
                             !.examples = mismatch_examples(validation_report),
                             !.optimized_from = current_code_path]
     IN \E fail \in BOOLEAN, prog \in Programs :
          IF fail
          THEN /\ Except(results, seen, "oracle", "oracle")
               /\ UNCHANGED <<files, current_code_path>>
          ELSE LET output_path == [kind |-> "opt", ts |-> get_timestamp]
               IN /\ files' = Put(files, output_path, prog)
                  /\ current_code_path' = output_path
                  /\ obs' = seen
                  /\ pc' = "loop"
                  /\ UNCHANGED results
  /\ UNCHANGED <<config, lookup_locals, clock, library, analysis_report, iteration,
                 validation_passed, exec_out, validation_report>>

\* Phase 5: self.data_exporter.export
Export ==
  /\ pc = "export"
  /\ calls' = Called("export")
  /\ \E fail \in BOOLEAN :
       IF fail
       THEN Except(results, obs, "export failed", "export")
       ELSE /\ obs' = obs
            /\ IF enable_learning
               THEN /\ results' = Put(results, "exported_files", "files")
                    /\ pc' = "store"
               ELSE /\ results' = Put(Put(results, "exported_files", "files"),
                                      "success", TRUE)
                    /\ pc' = "done"
  /\ UNCHANGED <<config, lookup_locals, clock, files, library, analysis_report, iteration,
                 validation_passed, current_code_path, exec_out,
                 validation_report>>

\* Phase 5: self.pattern_library.save_pattern, then results['success'] = True
Store ==
  /\ pc = "store"
  /\ calls' = Called("save_pattern")
  /\ \E fail \in BOOLEAN :
       IF fail
       THEN /\ Except(results, obs, "store failed", "store")
            /\ UNCHANGED library
       ELSE LET code == files[current_code_path]
                pattern_id == get_timestamp
            IN /\ library' = save_pattern(library, analysis_report, code,
                                          validation_report, pattern_id)
               /\ results' = Put(Put(results, "pattern_id", pattern_id),
                                 "success", TRUE)
               /\ obs' = [obs EXCEPT !.stored_code = code]
               /\ pc' = "done"
  /\ UNCHANGED <<config, lookup_locals, clock, files, analysis_report, iteration,
                 validation_passed, current_code_path, exec_out,
                 validation_report>>

\* A second of wall-clock time passes.  The clock counts from the entry of
\* run and is observed only through get_timestamp, so the passing of time is
\* taken just before the steps that read it to name a file or a pattern.
Tick ==
  /\ pc \in {"generate", "regenerate", "store"}
  /\ clock < MaxClock
  /\ clock' = clock + 1
  /\ UNCHANGED <<config, lookup_locals, pc, files, library, results, analysis_report,
                 iteration, validation_passed, current_code_path, exec_out,
                 validation_report, calls, obs>>

Next ==
  \/ Analyze
  \/ CacheCheck
  \/ Generate
  \/ Execute
  \/ LoopExit
  \/ Validate
  \/ Regenerate
  \/ Export
  \/ Store
  \/ Tick

Spec == Init /\ [][Next]_vars

TypeOK ==
  /\ max_iterations \in 0..MaxIter
  /\ iteration \in 0..MaxIter
  /\ clock \in 0..MaxClock
  /\ pc \in {"start", "cache", "generate", "loop", "validate", "regenerate",
             "export", "store", "done", "crashed", "hung"}

(***************************************************************************)
(* DataValidator.validate on its own: one call on a result table, a        *)
(* reference table and a threshold drawn from the sets below.              *)
(***************************************************************************)
MaxRows == 2            \* most rows of a short table (one less with two columns)
MaxLong == 11           \* most rows of a long (two-column) table

\* cells of a one-column table, by dtype
Values1(dtype) ==
  CASE dtype = "int64" -> {I64(1), I64(2)}
    [] dtype = "float64" -> {F64(1), Cell("f64", Unit + 1), Cell("f64", Unit + 2), NaN}
    [] dtype = "object" -> {Str(1), NaN, Cell("int", Unit), Cell("float", 2 * Unit)}

\* cells of a two-column table, by dtype
Values2(dtype) ==
  CASE dtype = "int64" -> {I64(1), I64(2)}
    [] dtype = "float64" -> {F64(1), F64(2)}
    [] dtype = "object" -> {Str(1), Str(2)}

Schemas ==
  { << >>,
    <<Col("x", "int64")>>, <<Col("x", "float64")>>, <<Col("x", "object")>>,
    <<Col("x", "int64"), Col("y", "object")>>,
    <<Col("y", "object"), Col("x", "int64")>>,
    <<Col("x", "float64"), Col("y", "object")>> }

\* the rows a table of these columns may hold
RowsOf(cols) ==
  LET Values(dtype) == IF Len(cols) = 1 THEN Values1(dtype) ELSE Values2(dtype)
  IN { r \in [1..Len(cols) -> UNION {Values(cols[i].dtype) : i \in 1..Len(cols)}] :
         \A i \in 1..Len(cols) : r[i] \in Values(cols[i].dtype) }

ShortTables ==
  UNION { { DataFrame(cols, rows) :
              rows \in UNION { [1..n -> RowsOf(cols)] :
                                n \in 0..(IF Len(cols) <= 1 THEN MaxRows
                                                            ELSE MaxRows - 1) } } :
          cols \in Schemas }

LongCols == <<Col("x", "int64"), Col("y", "object")>>

\* n rows of <<1, "s1">>, except that the cells at row-major positions
\* k >= from with k a multiple of every hold <<2, "s2">>
LongTable(n, from, every) ==
  LET bad(k) == k >= from /\ k % every = 0
  IN DataFrame(LongCols,
               [i \in 1..n |-> <<I64(IF bad(2 * i - 1) THEN 2 ELSE 1),
                                 Str(IF bad(2 * i) THEN 2 ELSE 1)>>])

LongTables ==
  { LongTable(n, from, every) :
      n \in (MaxLong - 1)..MaxLong,
      from \in {1, 2, 3, 2 * MaxLong + 1},
      every \in {1, 3} }

ValTables == ShortTables \cup LongTables

ValThresholds == { <<0, 1>>, <<1, 2>>, <<1, 1>> }

ValInit ==
  /\ max_iterations = 1
  /\ enable_learning = FALSE
  /\ save_artifacts = FALSE
  /\ accuracy_threshold \in ValThresholds
  /\ check_library = FALSE
  /\ ground_truth \in ValTables
  /\ pc = "call"
  /\ clock = 0
  /\ files = << >>
  /\ library = << >>
  /\ results = << >>
  /\ analysis_report = [none |-> TRUE]
  /\ iteration = 1
  /\ validation_passed = FALSE
  /\ current_code_path = NoPath
  /\ \E T \in ValTables :
        exec_out = [success |-> TRUE, result_df |-> T, error_msg |-> ""]
  /\ validation_report = NoReport
  /\ pattern_files = << >>
  /\ pattern = NoReport
  /\ calls = [o \in Ops |-> 0]
  /\ obs = [raised |-> "none", executed |-> NoProgram, executed_path |-> NoPath,
            exec_iter |-> 0, last_report |-> NoReport, report_iter |-> 0,
            passed_program |-> NoProgram, feedback |-> NoReport,
            examples |-> << >>, optimized_from |-> NoPath, lookup |-> "none",
            stored_code |-> NoProgram]

\* validate returns its report
ValidateReturns ==
  /\ pc = "call"
  /\ ~validate_raises(exec_out.result_df, ground_truth)
  /\ validation_report' = validate(exec_out.result_df, ground_truth, accuracy_threshold)
  /\ calls' = Called("validate")
  /\ pc' = "returned"
  /\ UNCHANGED <<config, lookup_locals, clock, files, library, results, analysis_report,
                 iteration, validation_passed, current_code_path, exec_out, obs>>

\* validate raises the KeyError of df2.loc[idx, col]
ValidateRaises ==
  /\ pc = "call"
  /\ validate_raises(exec_out.result_df, ground_truth)
  /\ calls' = Called("validate")
  /\ pc' = "raised"
  /\ UNCHANGED <<config, lookup_locals, clock, files, library, results, analysis_report,
                 iteration, validation_passed, current_code_path, exec_out,
                 validation_report, obs>>

ValNext ==
  \/ ValidateReturns
  \/ ValidateRaises

ValSpec == ValInit /\ [][ValNext]_vars

(***************************************************************************)
(* Properties of the correction loop.                                      *)
(***************************************************************************)
ExecuteStep == calls'["execute"] = calls["execute"] + 1

ValidateStep == calls'["validate"] = calls["validate"] + 1

OptimizeStep == calls'["optimize"] = calls["optimize"] + 1

\* the Validator returns a report with passed = false in this step
ValidatorRejects ==
  /\ ValidateStep
  /\ ~validate_raises(exec_out.result_df, GroundTruth)
  /\ ~validate(exec_out.result_df, GroundTruth, accuracy_threshold).passed

\* C1: in every job, whatever the Executor outcomes and Validator verdicts,
\* CodeRunner.execute is invoked at most max_iterations times (never when
\* max_iterations = 0).
C1_ExecuteAtMostMaxIterations == calls["execute"] <= max_iterations

C1_Witness ==
  /\ pc = "done"
  /\ max_iterations >= 2
  /\ calls["execute"] = max_iterations

\* C2: whenever the Validator returns passed = false in an iteration with
\* iteration < max_iterations, whatever the cause, the loop calls
\* CodeOptimizer.optimize with that report, and a regeneration that yields a
\* program is followed by another Executor invocation on that program.
C2_RejectionRegenerates ==
  [][ /\ (ValidatorRejects /\ iteration < max_iterations)
         => /\ pc' = "regenerate"
            /\ validation_report' =
                 validate(exec_out.result_df, GroundTruth, accuracy_threshold)
      /\ OptimizeStep
         => /\ obs'.feedback = validation_report
            /\ pc' = "loop" => /\ iteration' < max_iterations
                               /\ ~validation_passed'
                               /\ current_code_path' \in DOMAIN files' ]_vars

\* C3: whenever the Validator returns passed = false in the iteration with
\* iteration = max_iterations, for every kind of validation failure, the job
\* ends Failed with that report in results['validation_report'] and no
\* regeneration is requested.
C3_LastRejectionReported ==
  [][ (ValidatorRejects /\ iteration = max_iterations)
        => /\ pc' \in {"loop", "done"}
           /\ ~WhileCond(iteration', validation_passed')
           /\ ~results'["success"]
           /\ HasKey(results', "validation_report")
           /\ results'["validation_report"] =
                validate(exec_out.result_df, GroundTruth, accuracy_threshold) ]_vars

\* C4: when the Executor returns a failure in the iteration with
\* iteration = max_iterations, the job ends with success = false and
\* results['error'] equal to the error message of that execution, and no
\* regeneration or validation (nor any other call) follows.
C4_LastExecutionErrorReported ==
  [][ /\ (ExecuteStep /\ iteration' = max_iterations
            /\ obs'.executed.kind \in FailKinds)
         => /\ pc' = "done"
            /\ ~results'["success"]
            /\ HasKey(results', "error")
            /\ results'["error"] = ExecutionFailed[obs'.executed.kind]
            /\ results'["error"] = exec_out'.error_msg
      /\ pc = "done" => calls' = calls ]_vars

C4_Witness ==
  /\ pc = "done"
  /\ max_iterations >= 2
  /\ obs.exec_iter = max_iterations
  /\ obs.executed.kind = "nomain"
  /\ ~results["success"]
  /\ results["error"] = ExecutionFailed["nomain"]
  /\ calls["optimize"] = max_iterations - 1

\* C5: every job that ends without a passing validation because its
\* iteration budget is used up (run returns normally with success = false)
\* returns the last available diagnostic: the last execution error in
\* results['error'] or the last ValidationReport in
\* results['validation_report'], for every max_iterations, 0 included.
C5_BudgetExhaustedHasDiagnostic ==
  (pc = "done" /\ obs.raised = "none" /\ ~results["success"])
    => \/ /\ HasKey(results, "error")
          /\ results["error"] = exec_out.error_msg
       \/ /\ HasKey(results, "validation_report")
          /\ results["validation_report"] = obs.last_report

\* C6: every result run returns at the end of the loop, for a successful job
\* and for a failed job alike, contains 'success' and 'iterations'.
C6_ResultHasSuccessAndIterations ==
  (pc = "done" /\ obs.raised = "none")
    => /\ HasKey(results, "success")
       /\ HasKey(results, "iterations")

\* C7: in every job in which some ValidationReport has passed = true,
\* save_pattern is called exactly once if enable_learning is true and never
\* if it is false, whatever the outcome of the export step.
C7_PassedJobStoresOnce ==
  (pc = "done" /\ validation_passed)
    => calls["save_pattern"] = (IF enable_learning THEN 1 ELSE 0)

\* C8: save_pattern is called only after a ValidationReport with
\* passed = true was produced in the same job for the program being stored;
\* a job without a passing validation (Failed, or loop never run) performs
\* no store call.
C8_StoreOnlyAfterPassed ==
  /\ calls["save_pattern"] > 0
       => /\ HasKey(obs.last_report, "passed")
          /\ obs.last_report.passed
          /\ obs.report_iter = iteration
          /\ obs.passed_program = obs.executed
          /\ files[current_code_path] = obs.passed_program
          /\ obs.stored_code \in {NoProgram, obs.passed_program}
  /\ (pc = "done" /\ ~validation_passed) => calls["save_pattern"] = 0

C8_Witness ==
  /\ pc = "done"
  /\ calls["save_pattern"] = 1
  /\ calls["optimize"] >= 1
  /\ obs.stored_code = obs.passed_program
  /\ obs.stored_code # NoProgram
  /\ results["success"]

\* C9: if a pattern record in the library is corrupted or unreadable when
\* the cache check runs, the lookup is treated as a miss and the job goes on
\* to code generation.
C9_CorruptRecordIsMiss ==
  [][ (/\ pc = "cache"
       /\ pc' # "cache"
       /\ check_library
       /\ enable_learning
       /\ \E id \in DOMAIN library : ~library[id].readable)
        => pc' = "generate" ]_vars

\* C10: a job in which no oracle call fails (and no library, export or store
\* operation fails) ends only by success or by budget exhaustion: if it
\* returns success = false, the Executor was invoked exactly max_iterations
\* times.
C10_NoEarlyExit ==
  (/\ pc = "done"
   /\ obs.raised \notin {"oracle", "library", "export", "store"}
   /\ ~results["success"])
    => calls["execute"] = max_iterations

\* C11: CodeRunner.execute never lets a failure of the candidate program
\* propagate: for every way the candidate can fail (an exception or a
\* process-exit request raised while the source is loaded or main runs, a
\* missing main, a result that is no table) it returns the failure outcome
\* and the host job keeps running.
C11_CandidateFailureContained ==
  [][ (ExecuteStep /\ obs'.executed.kind \in FailKinds \cup {"exit"})
        => /\ pc' \in {"regenerate", "done"}
           /\ ~exec_out'.success
           /\ exec_out'.result_df = NoDF
           /\ exec_out'.error_msg # "" ]_vars

\* C12: an Executor invocation whose candidate program does not finish is
\* cut off and reported as an execution failure, so that the job goes on to
\* a terminal state and run returns.
C12_HangIsCutOff ==
  [][ (ExecuteStep /\ obs'.executed.kind = "hang")
        => /\ pc' \in {"regenerate", "done"}
           /\ ~exec_out'.success
           /\ exec_out'.error_msg # "" ]_vars

\* C13: executing a program that defines no main, or whose main returns a
\* value that is not a table, yields the failure outcome (no exception); the
\* loop then regenerates if iteration < max_iterations and ends Failed with
\* that error otherwise.
C13_ContractViolationIsFailure ==
  [][ (ExecuteStep /\ obs'.executed.kind \in {"nomain", "nondf"})
        => /\ exec_out' = [success |-> FALSE, result_df |-> NoDF,
                           error_msg |-> ExecutionFailed[obs'.executed.kind]]
           /\ iteration' < max_iterations
                => /\ pc' = "regenerate"
                   /\ validation_report' = ErrorReport(exec_out'.error_msg)
           /\ iteration' >= max_iterations
                => /\ pc' = "done"
                   /\ ~results'["success"]
                   /\ results'["error"] = exec_out'.error_msg ]_vars

C13_Witness ==
  /\ pc = "done"
  /\ obs.executed.kind = "nondf"
  /\ obs.exec_iter = max_iterations
  /\ calls["optimize"] >= 1
  /\ obs.feedback = ErrorReport(ExecutionFailed["nomain"])
  /\ results["error"] = ExecutionFailed["nondf"]

\* C14: if an oracle call fails (analysis, initial generation or
\* regeneration), the job is aborted at once: run returns success = false
\* with the error in results['error'], the failed call is not retried, and no
\* execution, regeneration, export or store follows.
C14_OracleErrorAborts ==
  /\ [](obs.raised = "oracle"
          => /\ pc = "done"
             /\ ~results["success"]
             /\ HasKey(results, "error")
             /\ results["error"] = "oracle"
             /\ calls["export"] = 0
             /\ calls["save_pattern"] = 0)
  /\ [][ /\ (obs'.raised = "oracle" /\ obs.raised = "none")
            => /\ calls'["execute"] = calls["execute"]
               /\ calls'["export"] = calls["export"]
               /\ calls'["analyze"] + calls'["generate"] + calls'["optimize"]
                    = calls["analyze"] + calls["generate"] + calls["optimize"] + 1
         /\ obs.raised = "oracle" => calls' = calls ]_vars

C14_Witness ==
  /\ pc = "done"
  /\ obs.raised = "oracle"
  /\ calls["optimize"] >= 1
  /\ calls["execute"] = 1
  /\ max_iterations >= 2
  /\ results["error"] = "oracle"

(***************************************************************************)
(* Properties of DataValidator.validate (specification ValSpec).           *)
(***************************************************************************)
\* the column names of both tables are the same sequence
SameNames ==
  /\ Len(exec_out.result_df.cols) = Len(ground_truth.cols)
  /\ \A i \in 1..Len(ground_truth.cols) :
        exec_out.result_df.cols[i].name = ground_truth.cols[i].name

\* some column's type differs other than integer versus floating point
TypeClash ==
  \E i \in 1..Min(Len(exec_out.result_df.cols), Len(ground_truth.cols)) :
     /\ exec_out.result_df.cols[i].dtype # ground_truth.cols[i].dtype
     /\ ~({exec_out.result_df.cols[i].dtype, ground_truth.cols[i].dtype}
            \subseteq {"int64", "float64"})

\* the row-major positions of the result's cells that do not match
BadPositions ==
  { k \in DOMAIN CellOrder(exec_out.result_df) :
      ~CellMatches(exec_out.result_df, ground_truth, CellOrder(exec_out.result_df)[k]) }

\* C15: in every report validate returns, passed is true if and only if
\* schema_match is true, row_count_match is true and
\* value_accuracy >= accuracy_threshold.
C15_PassedIffAllThree ==
  pc = "returned"
    => (validation_report.passed
          <=> /\ validation_report.schema_match
              /\ validation_report.row_count_match
              /\ validation_report.value_accuracy[1] * accuracy_threshold[2]
                   >= accuracy_threshold[1] * validation_report.value_accuracy[2])

C15_Witness ==
  /\ pc = "returned"
  /\ validation_report.passed
  /\ accuracy_threshold = <<1, 2>>
  /\ validation_report.value_accuracy = <<1, 2>>
  /\ validation_report.mismatches_count = 1

\* C16: if the result's column names differ as a sequence from the
\* reference's (a reordering included), or a column's type differs other than
\* integer versus floating point, validate returns passed = false,
\* schema_match = false and value_accuracy = 0.0 with no cell compared;
\* otherwise (the types differ at most integer versus floating point) the
\* schema check does not fail.
C16_SchemaFailureShortCircuits ==
  pc # "call"
    => IF ~SameNames \/ TypeClash
       THEN /\ pc = "returned"
            /\ validation_report.passed = FALSE
            /\ validation_report.schema_match = FALSE
            /\ validation_report.value_accuracy = <<0, 1>>
            /\ ~HasKey(validation_report, "mismatches_count")
            /\ ~HasKey(validation_report, "mismatches_sample")
       ELSE pc = "returned" => validation_report.schema_match = TRUE

C16_Witness ==
  /\ pc = "returned"
  /\ ~SameNames
  /\ {exec_out.result_df.cols[i] : i \in 1..Len(exec_out.result_df.cols)}
       = {ground_truth.cols[i] : i \in 1..Len(ground_truth.cols)}
  /\ len(exec_out.result_df) = len(ground_truth)
  /\ len(ground_truth) > 0
  /\ validation_report.schema_match = FALSE
  /\ validation_report.value_accuracy = <<0, 1>>

\* C17: for tables with matching schema and different row counts (the result
\* shorter or longer), validate returns a report with row_count_match =
\* false, passed = false, rows_expected and rows_actual set and a
\* value_accuracy from the cell comparison; it does not fail.
C17_RowCountMismatchReported ==
  (pc # "call" /\ SameNames /\ ~TypeClash
     /\ len(exec_out.result_df) # len(ground_truth))
    => /\ pc = "returned"
       /\ validation_report.row_count_match = FALSE
       /\ validation_report.passed = FALSE
       /\ validation_report.rows_expected = len(ground_truth)
       /\ validation_report.rows_actual = len(exec_out.result_df)
       /\ HasKey(validation_report, "value_accuracy")

\* C18: for tables that pass the schema check, value_accuracy =
\* matching_cells / total_cells lies in [0, 1]; it is 1.0 when every compared
\* cell matches and 0.0 when the compared table has no cells, so that an
\* empty result passes no threshold above 0.
C18_AccuracyIsMatchingOverTotal ==
  (pc = "returned" /\ validation_report.schema_match)
    => LET acc == validation_report.value_accuracy
           total == len(exec_out.result_df) * Len(exec_out.result_df.cols)
           matching == total - Cardinality(BadPositions)
       IN /\ 0 <= acc[1] /\ acc[1] <= acc[2] /\ acc[2] > 0
          /\ total > 0 => acc[1] * total = matching * acc[2]
          /\ (total > 0 /\ matching = total) => acc[1] = acc[2]
          /\ total = 0 => /\ acc[1] = 0
                          /\ accuracy_threshold[1] > 0 => ~validation_report.passed

C18_Witness ==
  /\ pc = "returned"
  /\ validation_report.schema_match
  /\ len(exec_out.result_df) = 0
  /\ len(ground_truth) = 0
  /\ Len(ground_truth.cols) = 2
  /\ accuracy_threshold = <<1, 2>>
  /\ validation_report.value_accuracy = <<0, 1>>
  /\ ~validation_report.passed

\* C19: for a comparison with n mismatching cells, mismatches_sample has
\* length min(n, 20) and holds the first mismatches in row-major,
\* column-order traversal, while mismatches_count = n and value_accuracy
\* count all cells.
C19_SampleIsFirstTwenty ==
  (pc = "returned" /\ validation_report.schema_match)
    => LET n == Cardinality(BadPositions)
           sample == validation_report.mismatches_sample
           total == len(exec_out.result_df) * Len(exec_out.result_df.cols)
           \* the i-th smallest mismatching position
           nth(i) == CHOOSE k \in BadPositions :
                        Cardinality({j \in BadPositions : j <= k}) = i
       IN /\ Len(sample) = (IF n <= 20 THEN n ELSE 20)
          /\ \A i \in 1..Len(sample) :
                LET rc == CellOrder(exec_out.result_df)[nth(i)]
                IN /\ sample[i].row = rc[1] - 1
                   /\ sample[i].column = exec_out.result_df.cols[rc[2]].name
                   /\ sample[i].actual = exec_out.result_df.rows[rc[1]][rc[2]]
          /\ validation_report.mismatches_count = n
          /\ total > 0 => validation_report.value_accuracy = <<total - n, total>>

C19_Witness ==
  /\ pc = "returned"
  /\ validation_report.schema_match
  /\ validation_report.mismatches_count = 21
  /\ Len(validation_report.mismatches_sample) = 20
  /\ validation_report.mismatches_sample[1].row = 0
  /\ validation_report.mismatches_sample[1].column = "y"
  /\ validation_report.mismatches_sample[20].row = 10

\* C20: every recorded mismatch whose expected and actual values are both
\* numeric carries the signed difference expected - actual; every mismatch
\* with a non-numeric side carries a null difference.
C20_DifferenceIsExpectedMinusActual ==
  (pc = "returned" /\ validation_report.schema_match)
    => \A i \in 1..Len(validation_report.mismatches_sample) :
          LET m == validation_report.mismatches_sample[i]
              Numeric == {"i64", "f64", "int", "float"}
          IN /\ (m.expected.t \in Numeric /\ m.actual.t \in Numeric)
                  => /\ ~m.difference.none
                     /\ m.difference.d = m.expected.v - m.actual.v
             /\ (m.expected.t = "str" \/ m.actual.t = "str")
                  => m.difference.none

\* the comparison of two cells as documented: absent with absent, numbers
\* within 1e-6 whatever their representation, otherwise same type and equal
DocumentedMatch(a, b) ==
  LET Numeric == {"i64", "f64", "int", "float"}
  IN IF a.t = "nan" /\ b.t = "nan" THEN TRUE
     ELSE IF a.t \in Numeric /\ b.t \in Numeric
     THEN a.v - b.v <= 1 /\ b.v - a.v <= 1
     ELSE a.t = b.t /\ a.v = b.v

\* C21: two absent cells match; two numeric cells, integer or floating point
\* in any combination, match iff they differ by at most 1e-6; any other pair
\* matches iff the values have the same type and are equal.  So the cells
\* validate reports as mismatches are those that do not match in this sense
\* (and an integer column against an equal float column has accuracy 1.0).
C21_CellComparison ==
  (pc = "returned" /\ validation_report.schema_match)
    => LET g == exec_out.result_df
           differing ==
             { k \in DOMAIN CellOrder(g) :
                 LET rc == CellOrder(g)[k]
                 IN ~DocumentedMatch(g.rows[rc[1]][rc[2]],
                                     ground_truth.rows[rc[1]][rc[2]]) }
       IN /\ validation_report.mismatches_count = Cardinality(differing)
          /\ (differing = {} /\ len(g) * Len(g.cols) > 0)
               => validation_report.value_accuracy[1]
                    = validation_report.value_accuracy[2]

(***************************************************************************)
(* Properties of the pattern library in a job (specification Spec).        *)
(***************************************************************************)
LookupStep == calls'["find_similar_pattern"] = calls["find_similar_pattern"] + 1

GenerateStep == calls'["generate"] = calls["generate"] + 1

\* the record id is readable and has the layout_type and fact_type of the
\* analysis report
StoredMatch(id) ==
  /\ library[id].readable
  /\ library[id].json.source_characteristics.layout_type
       = analysis_report.structure_analysis.layout_type
  /\ library[id].json.source_characteristics.fact_type
       = analysis_report.semantic_analysis.fact_type

\* C24: when find_similar_pattern hits, the usage_count of the returned
\* pattern is one more than the stored value before the call, and that value
\* is in the pattern's stored record when the call returns (no other field
\* and no other record changes).
C24_HitIncrementsUsage ==
  [][ (LookupStep /\ obs'.lookup = "hit")
        => \E id \in DOMAIN library :
              /\ StoredMatch(id)
              /\ DOMAIN library' = DOMAIN library
              /\ library'[id].readable
              /\ library'[id].json.usage_count = library[id].json.usage_count + 1
              /\ [library'[id].json EXCEPT !.usage_count = 0]
                   = [library[id].json EXCEPT !.usage_count = 0]
              /\ \A other \in DOMAIN library \ {id} :
                    library'[other] = library[other] ]_vars

C24_Witness ==
  /\ obs.lookup = "hit"
  /\ -2 \in DOMAIN library
  /\ library[-2].json.usage_count = 4
  /\ ~library[-1].readable

\* C27: find_similar_pattern returns a pattern iff some stored pattern has
\* the report's layout_type and fact_type, and the pattern returned has
\* both; with an empty library or no matching pattern it returns None
\* without raising and leaves every record unchanged.
C27_LookupIsExactMatch ==
  [][ LookupStep
        => IF \E id \in DOMAIN library : StoredMatch(id)
           THEN obs'.lookup = "hit"
           ELSE /\ obs'.lookup = "miss"
                /\ obs'.raised = "none"
                /\ library' = library ]_vars

\* C28: a cache hit does not bypass generation: after the cache check, on a
\* hit as on a miss, generate is called once, and the first execute runs
\* the candidate generate wrote, not the code of the cached pattern.
C28_HitStillGenerates ==
  /\ [](calls["generate"] <= 1)
  /\ [](calls["execute"] >= 1 => calls["generate"] = 1)
  /\ [][ GenerateStep => (pc = "generate" /\ calls["execute"] = 0) ]_vars
  /\ [][ (ExecuteStep /\ calls["execute"] = 0)
           => /\ obs'.executed_path = results["generated_code"]
              /\ obs'.executed_path.kind = "gen"
              /\ obs'.executed = files[obs'.executed_path] ]_vars

C28_Witness ==
  /\ obs.lookup = "hit"
  /\ calls["generate"] = 1
  /\ calls["execute"] = 1
  /\ obs.executed_path.kind = "gen"
  /\ obs.executed # OldCode

MaxLoopIter == 3

LongTruth == LongTable(MaxLong, 2 * MaxLong + 1, 1)

FirstPrograms ==
  { [kind |-> "ok", out |-> T] : T \in LongTables }
  \cup { [kind |-> k, out |-> NoDF] : k \in FailKinds }

LoopInit ==
  /\ max_iterations \in 0..MaxLoopIter
  /\ enable_learning \in BOOLEAN
  /\ save_artifacts \in BOOLEAN
  /\ accuracy_threshold \in Thresholds
  /\ check_library = FALSE
  /\ ground_truth = LongTruth
  /\ pc = "loop"
  /\ clock = 0
  /\ \E prog \in FirstPrograms :
        files = ([kind |-> "gen", ts |-> 0] :> prog)
  /\ library = << >>
  /\ results = Put(IF save_artifacts
                   THEN Put(InitialResults, "analysis_report", 0)
                   ELSE InitialResults,
                   "generated_code", [kind |-> "gen", ts |-> 0])
  /\ analysis_report = [timestamp |-> 0,
                        structure_analysis |-> [layout_type |-> "wide"],
                        semantic_analysis |-> [fact_type |-> "sales"],
                        transformation_plan |-> [complexity_estimate |-> "c"]]
  /\ iteration = 0
  /\ validation_passed = FALSE
  /\ current_code_path = [kind |-> "gen", ts |-> 0]
  /\ exec_out = [success |-> FALSE, result_df |-> NoDF, error_msg |-> "unset"]
  /\ validation_report = NoReport
  /\ pattern_files = << >>
  /\ pattern = NoReport
  /\ calls = [o \in Ops |-> IF o \in {"analyze", "generate"} THEN 1 ELSE 0]
  /\ obs = [raised |-> "none", executed |-> NoProgram, executed_path |-> NoPath,
            exec_iter |-> 0, last_report |-> NoReport, report_iter |-> 0,
            passed_program |-> NoProgram, feedback |-> NoReport,
            examples |-> << >>, optimized_from |-> NoPath, lookup |-> "none",
            stored_code |-> NoProgram]

LoopNext ==
  \/ Execute
  \/ LoopExit
  \/ Validate
  \/ Regenerate
  \/ Export
  \/ Store
  \/ Tick

LoopSpec == LoopInit /\ [][LoopNext]_vars

\* C22: each regeneration yields one new candidate program distinct from
\* every earlier candidate of the job: it is written to a path no earlier
\* candidate has, and no stored program of an earlier candidate changes,
\* whatever the timing of successive regenerations.
C22_RegenerationNeverOverwrites ==
  [][ (OptimizeStep /\ obs'.raised = "none")
        => /\ current_code_path' \notin DOMAIN files
           /\ DOMAIN files' = DOMAIN files \cup {current_code_path'}
           /\ \A path \in DOMAIN files : files'[path] = files[path] ]_vars

\* C30: when execute fails with iteration < max_iterations, regeneration is
\* called with the synthetic feedback {passed = false, the error message, no
\* mismatches} and validate is not called in that iteration; every
\* regeneration request passes at most 10 mismatch examples to the oracle,
\* the first 10 of the report's mismatch list in order.
C30_RegenerationFeedback ==
  /\ [][ (ExecuteStep /\ obs'.executed.kind \in FailKinds
            /\ iteration' < max_iterations)
           => /\ pc' = "regenerate"
              /\ exec_out'.error_msg = ExecutionFailed[obs'.executed.kind]
              /\ validation_report' = [passed |-> FALSE,
                                       error |-> exec_out'.error_msg,
                                       mismatches_sample |-> << >>]
              /\ calls'["validate"] = calls["validate"] ]_vars
  /\ [](HasKey(validation_report, "error") => obs.report_iter < iteration)
  /\ [][ OptimizeStep
           => LET list == IF HasKey(validation_report, "mismatches_sample")
                          THEN validation_report.mismatches_sample ELSE << >>
              IN /\ pc = "regenerate"
                 /\ obs'.feedback = validation_report
                 /\ obs'.optimized_from = current_code_path
                 /\ Len(obs'.examples) = (IF Len(list) <= 10 THEN Len(list) ELSE 10)
                 /\ \A i \in 1..Len(obs'.examples) : obs'.examples[i] = list[i] ]_vars

C30_Witness ==
  /\ calls["optimize"] = 2
  /\ calls["validate"] = 1
  /\ obs.last_report.mismatches_count = 2 * MaxLong
  /\ Len(obs.last_report.mismatches_sample) = 20
  /\ obs.feedback = [passed |-> FALSE, error |-> ExecutionFailed["raise"],
                     mismatches_sample |-> << >>]
  /\ obs.examples = << >>

(***************************************************************************)
(* Several jobs (runs of main.py in one working directory) at once.  They  *)
(* share the wall clock and the directories generator/generated (files)    *)
(* and learning/patterns (library); every other variable holds one value   *)
(* per job.  A job's steps are the accesses of run to the shared           *)
(* directories; save_json first truncates the file (open(path, 'w')) and   *)
(* then writes it (json.dump).  Whether a candidate's result passes is     *)
(* left open.                                                              *)
(***************************************************************************)
NJobs == 2

Jobs == 1..NJobs

\* the program the oracle writes for job j after n iterations
Candidate(j, n) == [kind |-> "ok", out |-> NoDF, owner |-> j, n |-> n]

\* an opened, not yet written file
Truncated(file) == [readable |-> FALSE, json |-> file.json]

JobLibraries ==
  { << >> }
  \cup { (-1 :> JsonFile(Pattern(-1, -1, layout, "sales", OldCode, <<1, 1>>, 0))) :
           layout \in Layouts }

JobsInit ==
  /\ max_iterations = MaxIter
  /\ enable_learning = TRUE
  /\ save_artifacts = FALSE
  /\ accuracy_threshold \in Thresholds
  /\ check_library = TRUE
  /\ ground_truth = GroundTruth
  /\ pc = [j \in Jobs |-> "cache"]
  /\ clock = 0
  /\ files = << >>
  /\ library \in JobLibraries
  /\ results = [j \in Jobs |-> InitialResults]
  /\ analysis_report = [timestamp |-> 0,
                        structure_analysis |-> [layout_type |-> "wide"],
                        semantic_analysis |-> [fact_type |-> "sales"],
                        transformation_plan |-> [complexity_estimate |-> "c"]]
  /\ iteration = [j \in Jobs |-> 0]
  /\ validation_passed = [j \in Jobs |-> FALSE]
  /\ current_code_path = [j \in Jobs |-> NoPath]
  /\ exec_out = [success |-> FALSE, result_df |-> NoDF, error_msg |-> "unset"]
  /\ validation_report = validate(GroundTruth, GroundTruth, accuracy_threshold)
  /\ pattern_files = [j \in Jobs |-> << >>]
  /\ pattern = [j \in Jobs |-> Pattern(0, 0, "", "", OldCode, <<0, 1>>, 0)]
  /\ calls = [o \in Ops |-> 0]
  /\ obs = [j \in Jobs |->
              [raised |-> "none",        \* exception that ended the job
               executed |-> {},          \* programs execute has run
               optimized |-> {},         \* programs optimize has read
               stored_code |-> {},       \* programs save_pattern has read
               written |-> {},           \* paths the job has written
               hit |-> {}]]              \* id of the pattern the lookup returned

\* pattern_files = [f for f in os.listdir(self.library_dir) ...]
JobList ==
  \E j \in Jobs :
    /\ pc[j] = "cache"
    /\ \E order \in Listings(library) :
          pattern_files' = [pattern_files EXCEPT ![j] = order]
    /\ pc' = [pc EXCEPT ![j] = "scan"]
    /\ calls' = Called("find_similar_pattern")
    /\ UNCHANGED <<config, clock, files, library, results, analysis_report,
                   iteration, validation_passed, current_code_path, exec_out,
                   validation_report, pattern, obs>>

\* one turn of the for loop: pattern = load_json(pattern_path) and the
\* similarity check; pattern['usage_count'] += 1 on a match
JobLoad ==
  \E j \in Jobs :
    /\ pc[j] = "scan"
    /\ IF pattern_files[j] = << >>
       THEN /\ pc' = [pc EXCEPT ![j] = "generate"]
            /\ UNCHANGED <<pattern_files, pattern, results, obs>>
       ELSE LET file == library[Head(pattern_files[j])]
            IN IF ~file.readable
               THEN /\ pc' = [pc EXCEPT ![j] = "done"]
                    /\ results' = [results EXCEPT
                                     ![j] = Put(@, "error", "JSONDecodeError")]
                    /\ obs' = [obs EXCEPT ![j].raised = "library"]
                    /\ UNCHANGED <<pattern_files, pattern>>
               ELSE IF SignatureMatches(file.json, analysis_report)
               THEN /\ pattern' = [pattern EXCEPT
                                     ![j] = [file.json EXCEPT !.usage_count = @ + 1]]
                    /\ pc' = [pc EXCEPT ![j] = "save"]
                    /\ UNCHANGED <<pattern_files, results, obs>>
               ELSE /\ pattern_files' = [pattern_files EXCEPT ![j] = Tail(@)]
                    /\ pattern' = [pattern EXCEPT ![j] = file.json]
                    /\ UNCHANGED <<pc, results, obs>>
    /\ UNCHANGED <<config, clock, files, library, analysis_report, iteration,
                   validation_passed, current_code_path, exec_out,
                   validation_report, calls>>

\* save_json(pattern, pattern_path): open(file_path, 'w')
JobSaveOpen ==
  \E j \in Jobs :
    /\ pc[j] = "save"
    /\ library' = [library EXCEPT ![Head(pattern_files[j])] = Truncated(@)]
    /\ pc' = [pc EXCEPT ![j] = "dump"]
    /\ UNCHANGED <<config, clock, files, results, analysis_report, iteration,
                   validation_passed, current_code_path, exec_out,
                   validation_report, pattern_files, pattern, calls, obs>>

\* save_json(pattern, pattern_path): json.dump; return pattern
JobSaveDump ==
  \E j \in Jobs :
    /\ pc[j] = "dump"
    /\ library' = [library EXCEPT ![Head(pattern_files[j])] = JsonFile(pattern[j])]
    /\ obs' = [obs EXCEPT ![j].hit = {Head(pattern_files[j])}]
    /\ pc' = [pc EXCEPT ![j] = "generate"]
    /\ UNCHANGED <<config, clock, files, results, analysis_report, iteration,
                   validation_passed, current_code_path, exec_out,
                   validation_report, pattern_files, pattern, calls>>

\* CodeGenerator.generate writes generator/generated/transform_{timestamp}.py
JobGenerate ==
  \E j \in Jobs :
    /\ pc[j] = "generate"
    /\ LET code_path == [kind |-> "gen", ts |-> get_timestamp]
       IN /\ files' = Put(files, code_path, Candidate(j, 0))
          /\ current_code_path' = [current_code_path EXCEPT ![j] = code_path]
          /\ results' = [results EXCEPT ![j] = Put(@, "generated_code", code_path)]
          /\ obs' = [obs EXCEPT ![j].written = @ \cup {code_path}]
    /\ pc' = [pc EXCEPT ![j] = "loop"]
    /\ calls' = Called("generate")
    /\ UNCHANGED <<config, clock, library, analysis_report, iteration,
                   validation_passed, exec_out, validation_report,
                   pattern_files, pattern>>

\* iteration += 1; self.code_runner.execute(current_code_path, ...); the
\* validation of its result passes or not
JobExecute ==
  \E j \in Jobs :
    /\ pc[j] = "loop"
    /\ iteration[j] < max_iterations
    /\ iteration' = [iteration EXCEPT ![j] = @ + 1]
    /\ obs' = [obs EXCEPT ![j].executed = @ \cup {files[current_code_path[j]]}]
    /\ calls' = Called("execute")
    /\ \E passed \in BOOLEAN :
         IF passed
         THEN /\ validation_passed' = [validation_passed EXCEPT ![j] = TRUE]
              /\ pc' = [pc EXCEPT ![j] = "store"]
         ELSE /\ pc' = [pc EXCEPT ![j] = IF iteration[j] + 1 < max_iterations
                                         THEN "regenerate" ELSE "done"]
              /\ UNCHANGED validation_passed
    /\ UNCHANGED <<config, clock, files, library, results, analysis_report,
                   current_code_path, exec_out, validation_report,
                   pattern_files, pattern>>

\* CodeOptimizer.optimize reads code_path and writes
\* generator/generated/transform_{timestamp}_optimized.py
JobRegenerate ==
  \E j \in Jobs :
    /\ pc[j] = "regenerate"
    /\ LET output_path == [kind |-> "opt", ts |-> get_timestamp]
       IN /\ files' = Put(files, output_path, Candidate(j, iteration[j]))
          /\ current_code_path' = [current_code_path EXCEPT ![j] = output_path]
          /\ obs' = [obs EXCEPT
                       ![j].optimized = @ \cup {files[current_code_path[j]]},
                       ![j].written = @ \cup {output_path}]
    /\ pc' = [pc EXCEPT ![j] = "loop"]
    /\ calls' = Called("optimize")
    /\ UNCHANGED <<config, clock, library, results, analysis_report, iteration,
                   validation_passed, exec_out, validation_report,
                   pattern_files, pattern>>

\* PatternLibrary.save_pattern up to open(file_path, 'w') in save_json
JobStoreOpen ==
  \E j \in Jobs :
    /\ pc[j] = "store"
    /\ LET code == files[current_code_path[j]]
           pattern_id == get_timestamp
           record == Pattern(pattern_id, get_timestamp,
                             analysis_report.structure_analysis.layout_type,
                             analysis_report.semantic_analysis.fact_type,
                             code, validation_report.value_accuracy, 0)
       IN /\ pattern' = [pattern EXCEPT ![j] = record]
          /\ library' = Put(library, pattern_id, Truncated(JsonFile(record)))
          /\ obs' = [obs EXCEPT ![j].stored_code = @ \cup {code}]
    /\ pc' = [pc EXCEPT ![j] = "store_dump"]
    /\ calls' = Called("save_pattern")
    /\ UNCHANGED <<config, clock, files, results, analysis_report, iteration,
                   validation_passed, current_code_path, exec_out,
                   validation_report, pattern_files>>

\* json.dump of save_pattern's save_json; results['pattern_id'],
\* results['success'] = True
JobStoreDump ==
  \E j \in Jobs :
    /\ pc[j] = "store_dump"
    /\ library' = Put(library, pattern[j].pattern_id, JsonFile(pattern[j]))
    /\ results' = [results EXCEPT
                     ![j] = Put(Put(@, "pattern_id", pattern[j].pattern_id),
                                "success", TRUE)]
    /\ pc' = [pc EXCEPT ![j] = "done"]
    /\ UNCHANGED <<config, clock, files, analysis_report, iteration,
                   validation_passed, current_code_path, exec_out,
                   validation_report, pattern_files, pattern, calls, obs>>

\* a second passes while some job is running
JobTick ==
  /\ \E j \in Jobs : pc[j] # "done"
  /\ clock < MaxClock
  /\ clock' = clock + 1
  /\ UNCHANGED <<config, pc, files, library, results, analysis_report,
                 iteration, validation_passed, current_code_path, exec_out,
                 validation_report, pattern_files, pattern, calls, obs>>

JobsNext ==
  \/ JobList
  \/ JobLoad
  \/ JobSaveOpen
  \/ JobSaveDump
  \/ JobGenerate
  \/ JobExecute
  \/ JobRegenerate
  \/ JobStoreOpen
  \/ JobStoreDump
  \/ JobTick

JobsSpec == JobsInit /\ [][JobsNext]_vars

(***************************************************************************)
(* Properties of jobs sharing the directories (specification JobsSpec).    *)
(***************************************************************************)
\* C23: every save_pattern call generates a pattern_id that no pattern in
\* the library has: the store adds one record and changes no existing one,
\* whatever the timing of successive stores.
C23_StoreAddsFreshRecord ==
  [][ (calls'["save_pattern"] = calls["save_pattern"] + 1)
        => /\ DOMAIN library' # DOMAIN library
           /\ \A id \in DOMAIN library : library'[id] = library[id] ]_vars

\* C25: with jobs looking up and storing concurrently, no reader observes
\* an incomplete record (no load fails), and when all jobs have finished
\* every record is complete and its usage_count is the number of lookups
\* that returned it.
C25_NoCorruptionNoLostUpdate ==
  /\ \A j \in Jobs : obs[j].raised # "library"
  /\ (\A j \in Jobs : pc[j] = "done")
       => \A id \in DOMAIN library :
             /\ library[id].readable
             /\ library[id].json.usage_count
                  = Cardinality({j \in Jobs : id \in obs[j].hit})

\* C26: a job executes, regenerates from and stores only candidate programs
\* generated for that job, and the files it wrote keep its programs: the
\* jobs share no mutable state but the pattern library.
C26_JobsUseOwnCandidates ==
  \A j \in Jobs :
     /\ \A prog \in obs[j].executed \cup obs[j].optimized \cup obs[j].stored_code :
           prog.owner = j
     /\ \A path \in obs[j].written : files[path].owner = j

(***************************************************************************)
(* Further properties of a job (specification Spec).                       *)
(***************************************************************************)
ExportStep == calls'["export"] = calls["export"] + 1

StoreStep == calls'["save_pattern"] = calls["save_pattern"] + 1

\* a report with passed = true has been obtained
PassedReportObtained ==
  HasKey(obs.last_report, "passed") /\ obs.last_report.passed

\* C31: Succeeded and Failed are terminal: once a report with passed = true
\* has been obtained, or the budget is exhausted (iteration = max_iterations
\* and the iteration's execution or validation is over), no execute,
\* validate or regeneration call follows.
C31_TerminalStatesMakeNoCalls ==
  [][ (PassedReportObtained
         \/ (iteration >= max_iterations /\ pc # "validate"))
        => /\ calls'["execute"] = calls["execute"]
           /\ calls'["validate"] = calls["validate"]
           /\ calls'["optimize"] = calls["optimize"] ]_vars

C31_Witness ==
  /\ pc = "done"
  /\ max_iterations = 2
  /\ iteration = 2
  /\ calls["execute"] = 2
  /\ calls["validate"] = 2
  /\ calls["optimize"] = 1
  /\ obs.raised = "none"
  /\ ~obs.last_report.passed

\* C33: the iteration counter is incremented once per execute, so in a job
\* that leaves the loop without an exception, with max_iterations >= 1, the
\* regeneration calls number the executions minus one; regeneration is not
\* called when iteration = max_iterations, so there are at most
\* max_iterations - 1 of them.
C33_RegenerationsAreExecutionsMinusOne ==
  /\ [](iteration = calls["execute"])
  /\ []((pc = "done" /\ obs.raised = "none" /\ max_iterations >= 1
           /\ calls["generate"] = 1)
          => calls["optimize"] = calls["execute"] - 1)
  /\ [][ OptimizeStep => iteration < max_iterations ]_vars
  /\ [](max_iterations >= 1 => calls["optimize"] <= max_iterations - 1)
  /\ [](max_iterations = 0 => calls["optimize"] = 0)

C33_Witness ==
  /\ pc = "done"
  /\ obs.raised = "none"
  /\ max_iterations = 2
  /\ calls["execute"] = 2
  /\ calls["optimize"] = 1
  /\ HasKey(results, "error")

\* C34: in a returned result, success = true implies a validation_report
\* with passed = true, iterations with 1 <= iterations <= max_iterations and
\* final_code equal to the candidate executed in that last iteration, whose
\* text is the one stored as the pattern when learning is enabled.
C34_SuccessResultIsComplete ==
  (pc = "done" /\ HasKey(results, "success") /\ results["success"])
    => /\ HasKey(results, "validation_report")
       /\ results["validation_report"].passed
       /\ HasKey(results, "iterations")
       /\ 1 <= results["iterations"]
       /\ results["iterations"] <= max_iterations
       /\ results["iterations"] = obs.exec_iter
       /\ HasKey(results, "final_code")
       /\ results["final_code"] = obs.executed_path
       /\ files[results["final_code"]] = obs.executed
       /\ enable_learning
            => /\ obs.stored_code = obs.executed
               /\ library[results["pattern_id"]].json.transformation_code
                    = obs.executed

C34_Witness ==
  /\ pc = "done"
  /\ results["success"]
  /\ results["iterations"] = 2
  /\ results["final_code"].kind = "opt"
  /\ enable_learning
  /\ HasKey(results, "pattern_id")

\* C35: validate is invoked only with the table returned by a successful
\* execute of the same iteration: execute returns (true, table, "") or
\* (false, no table, a message), and a failure outcome never reaches
\* validate; an execution that does not return reaches nothing.
C35_ValidateOnlyAfterSuccessfulExecute ==
  /\ [][ ValidateStep
           => /\ exec_out.success
              /\ obs.executed.kind = "ok"
              /\ exec_out.result_df = obs.executed.out
              /\ obs.exec_iter = iteration
              /\ calls["validate"] < calls["execute"] ]_vars
  /\ [][ ExecuteStep
           => \/ /\ exec_out'.success
                 /\ obs'.executed.kind = "ok"
                 /\ exec_out'.result_df = obs'.executed.out
                 /\ exec_out'.error_msg = ""
                 /\ pc' = "validate"
              \/ /\ ~exec_out'.success
                 /\ exec_out'.result_df = NoDF
                 /\ exec_out'.error_msg # ""
                 /\ pc' # "validate"
              \/ /\ Escapes(obs'.executed)
                 /\ pc' \in {"crashed", "hung"}
                 /\ calls'["validate"] = calls["validate"] ]_vars

C35_Witness ==
  /\ calls["validate"] = 1
  /\ calls["execute"] = 2
  /\ obs.report_iter = 2
  /\ HasKey(obs.feedback, "error")
  /\ exec_out.success

\* C36: export runs only after a passing validation, at most once per job and
\* before the pattern store; results['success'] becomes true only after
\* export and, with learning enabled, store have completed, so a failure of
\* export or store leaves the job failed with the error recorded.
C36_ExportThenStoreThenSuccess ==
  /\ [][ ExportStep
           => /\ PassedReportObtained
              /\ obs.report_iter = iteration
              /\ calls["export"] = 0
              /\ calls["save_pattern"] = 0 ]_vars
  /\ [][ StoreStep => (calls["export"] = 1 /\ calls["save_pattern"] = 0
                         /\ enable_learning) ]_vars
  /\ []((HasKey(results, "success") /\ results["success"])
          => /\ calls["export"] = 1
             /\ calls["save_pattern"] = (IF enable_learning THEN 1 ELSE 0)
             /\ obs.raised = "none"
             /\ pc = "done")
  /\ [](obs.raised \in {"export", "store"}
          => /\ pc = "done"
             /\ ~results["success"]
             /\ HasKey(results, "error"))

C36_Witness ==
  /\ obs.raised = "store"
  /\ calls["export"] = 1
  /\ calls["save_pattern"] = 1
  /\ ~results["success"]
  /\ results["error"] = "store failed"

(***************************************************************************)
(* Further properties of DataValidator.validate (specification ValSpec).   *)
(***************************************************************************)
\* the result has fewer rows than the reference and all its cells match
FewerRowsAllMatch ==
  /\ validation_report.schema_match
  /\ len(exec_out.result_df) < len(ground_truth)
  /\ BadPositions = {}

\* the number of cells of the result table
ResultCells == len(exec_out.result_df) * Len(exec_out.result_df.cols)

\* C38 as stated: a report with passed = true implies the same column
\* sequence and the same number of rows; every result with fewer rows than
\* the reference whose present cells all match gets value_accuracy = 1.0 and
\* passed = false.
C38_PassedImpliesSameShape ==
  pc = "returned"
    => /\ validation_report.passed
            => (SameNames /\ len(exec_out.result_df) = len(ground_truth))
       /\ FewerRowsAllMatch
            => /\ validation_report.value_accuracy[1]
                    = validation_report.value_accuracy[2]
               /\ ~validation_report.passed

\* C38, amended: a report with passed = true implies the same column
\* sequence and the same number of rows; a result with at least one cell and
\* fewer rows than the reference whose cells all match gets
\* value_accuracy = 1.0 and passed = false, and a result without cells and
\* with fewer rows gets value_accuracy = 0.0 and passed = false.
C38_PassedImpliesSameShapeNonEmpty ==
  pc = "returned"
    => /\ validation_report.passed
            => (SameNames /\ len(exec_out.result_df) = len(ground_truth))
       /\ FewerRowsAllMatch
            => /\ ~validation_report.passed
               /\ IF ResultCells > 0
                  THEN validation_report.value_accuracy
                         = <<ResultCells, ResultCells>>
                  ELSE validation_report.value_accuracy = <<0, 1>>

C38_Witness ==
  /\ pc = "returned"
  /\ FewerRowsAllMatch
  /\ len(exec_out.result_df) = 1
  /\ len(ground_truth) = 2
  /\ validation_report.value_accuracy = <<1, 1>>
  /\ accuracy_threshold = <<1, 1>>
  /\ ~validation_report.passed
  /\ ~validation_report.row_count_match

(***************************************************************************)
(* The pattern library used sequentially (specification LibSpec): stores   *)
(* and lookups of one PatternLibrary, one call after the other.            *)
(***************************************************************************)
MaxLibCalls == 3

\* the analysis reports handed to save_pattern and find_similar_pattern
LibReports ==
  { [timestamp |-> 0,
     structure_analysis |-> [layout_type |-> layout],
     semantic_analysis |-> [fact_type |-> fact],
     transformation_plan |-> [complexity_estimate |-> "c"]] :
      layout \in Layouts, fact \in Facts }

\* the text read from code_path and validation_report.get('value_accuracy')
LibCandidates ==
  { [code |-> OldCode, acc |-> <<1, 1>>],
    [code |-> [kind |-> "ok", out |-> TReordered], acc |-> <<99, 100>>] }

\* the directory when the PatternLibrary is constructed
LibLibraries ==
  { << >>,
    (-2 :> JsonFile(Pattern(-2, -2, "wide", "sales", OldCode, <<1, 1>>, 3)))
       @@ (-1 :> JsonFile(Pattern(-1, -1, "wide", "sales", OldCode, <<1, 1>>, 0))),
    (-2 :> JsonFile(Pattern(-2, -2, "wide", "sales", OldCode, <<1, 1>>, 1)))
       @@ (-1 :> CorruptFile) }

LibInit ==
  /\ max_iterations = 1
  /\ enable_learning = TRUE
  /\ save_artifacts = FALSE
  /\ accuracy_threshold = <<99, 100>>
  /\ check_library = TRUE
  /\ ground_truth = GroundTruth
  /\ pc = "lib"
  /\ clock = 0
  /\ files = << >>
  /\ library \in LibLibraries
  /\ results = << >>
  /\ analysis_report = NoReport
  /\ iteration = 0
  /\ validation_passed = FALSE
  /\ current_code_path = NoPath
  /\ exec_out = [success |-> FALSE, result_df |-> NoDF, error_msg |-> ""]
  /\ validation_report = NoReport
  /\ pattern_files = << >>
  /\ pattern = NoReport
  /\ calls = [o \in Ops |-> 0]
  /\ obs = [op |-> "none", outcome |-> "none", id |-> 0,
            code |-> NoProgram, acc |-> <<0, 1>>,
            hits |-> [id \in DOMAIN library |->
                        IF library[id].readable
                        THEN library[id].json.usage_count ELSE 0]]

LibCalls == calls["save_pattern"] + calls["find_similar_pattern"]

\* PatternLibrary.save_pattern
LibStore ==
  /\ pc = "lib"
  /\ LibCalls < MaxLibCalls
  /\ calls' = Called("save_pattern")
  /\ \E report \in LibReports, cand \in LibCandidates :
       /\ library' = save_pattern(library, report, cand.code,
                                  [value_accuracy |-> cand.acc], get_timestamp)
       /\ analysis_report' = report
       /\ obs' = [obs EXCEPT !.op = "store", !.outcome = "stored",
                             !.id = get_timestamp,
                             !.code = cand.code, !.acc = cand.acc,
                             !.hits = IF HasKey(@, get_timestamp) THEN @
                                      ELSE Put(@, get_timestamp, 0)]
  /\ UNCHANGED <<config, lookup_locals, pc, clock, files, results, iteration,
                 validation_passed, current_code_path, exec_out,
                 validation_report>>

\* PatternLibrary.find_similar_pattern
LibLookup ==
  /\ pc = "lib"
  /\ LibCalls < MaxLibCalls
  /\ calls' = Called("find_similar_pattern")
  /\ \E report \in LibReports, order \in Listings(library) :
       LET found == find_similar_pattern(library, order, report)
       IN /\ analysis_report' = report
          /\ pattern_files' = order
          /\ IF found.kind = "hit"
             THEN /\ library' = IncrementUsage(library, found.id)
                  /\ pattern' = library'[found.id].json
                  /\ obs' = [obs EXCEPT !.op = "lookup", !.outcome = "hit",
                                        !.id = found.id,
                                        !.hits[found.id] = @ + 1]
             ELSE /\ library' = library
                  /\ pattern' = NoReport
                  /\ obs' = [obs EXCEPT !.op = "lookup",
                                        !.outcome = found.kind,
                                        !.id = found.id]
  /\ UNCHANGED <<config, pc, clock, files, results, iteration,
                 validation_passed, current_code_path, exec_out,
                 validation_report>>

\* a second passes
LibTick ==
  /\ pc = "lib"
  /\ clock < MaxClock
  /\ clock' = clock + 1
  /\ UNCHANGED <<config, lookup_locals, pc, files, library, results,
                 analysis_report, iteration, validation_passed,
                 current_code_path, exec_out, validation_report, calls, obs>>

LibNext ==
  \/ LibStore
  \/ LibLookup
  \/ LibTick

LibSpec == LibInit /\ [][LibNext]_vars

\* the readable stored patterns with the signature of a report
Matching(lib, report) ==
  { id \in DOMAIN lib :
      lib[id].readable /\ SignatureMatches(lib[id].json, report) }

\* C32: right after save_pattern the stored record has usage_count = 0, the
\* text of the stored program and the report's value_accuracy, and a
\* find_similar_pattern that follows with the same (layout_type, fact_type)
\* returns a pattern with that signature, never None.
C32_StoreThenLookup ==
  /\ [](obs.op = "store"
          => /\ library[obs.id].readable
             /\ library[obs.id].json.usage_count = 0
             /\ library[obs.id].json.transformation_code = obs.code
             /\ library[obs.id].json.validation_accuracy = obs.acc)
  /\ [][ (obs.op = "store" /\ LookupStep
            /\ analysis_report' = analysis_report)
           => /\ obs'.outcome = "hit"
              /\ pattern' # NoReport
              /\ SignatureMatches(pattern', analysis_report) ]_vars

\* C37: a lookup hit changes only the usage_count of the pattern it returns;
\* over any sequence of lookups and stores a pattern's usage_count never
\* decreases and equals the number of hits that returned it.
C37_UsageCountsHits ==
  /\ [][ (LookupStep /\ obs'.outcome = "hit")
           => /\ DOMAIN library' = DOMAIN library
              /\ [library'[obs'.id].json EXCEPT !.usage_count = 0]
                   = [library[obs'.id].json EXCEPT !.usage_count = 0]
              /\ \A other \in DOMAIN library \ {obs'.id} :
                    library'[other] = library[other] ]_vars
  /\ [][ \A id \in DOMAIN library :
            library[id].readable
              => /\ id \in DOMAIN library'
                 /\ library'[id].readable
                 /\ library'[id].json.usage_count
                      >= library[id].json.usage_count ]_vars
  /\ [](\A id \in DOMAIN library :
           library[id].readable
             => library[id].json.usage_count = obs.hits[id])

\* C39: with several patterns stored under the same (layout_type,
\* fact_type), a lookup returns and increments exactly one of them, the
\* first one in the listing, and leaves the usage_count of the others
\* unchanged.
C39_OneOfSeveralIsReturned ==
  [][ (LookupStep /\ Cardinality(Matching(library, analysis_report')) >= 2)
        => LET same == Matching(library, analysis_report')
           IN /\ obs'.outcome = "hit"
              /\ obs'.id \in same
              /\ \A i, j \in DOMAIN pattern_files' :
                    (pattern_files'[j] = obs'.id /\ pattern_files'[i] \in same)
                      => j <= i
              /\ pattern' = library'[obs'.id].json
              /\ library'[obs'.id].json.usage_count
                   = library[obs'.id].json.usage_count + 1
              /\ \A other \in same \ {obs'.id} :
                    library'[other].json.usage_count
                      = library[other].json.usage_count ]_vars

====
